---- MODULE Spec2Model ----
(***************************************************************************)
(* glhl: headless OpenGL contexts over EGL.                                *)
(*                                                                         *)
(* The repository holds three variants of the package, selected at build   *)
(* time; the variable `build` says which one a behaviour runs:             *)
(*   "gbm"      src/unnamed/part_000: generic display with a GBM device    *)
(*              fallback, the device fields inlined in Context;            *)
(*   "platform" src/platform_none.go: generic display with initPlatform    *)
(*              and platformContext, here the !linux (no-op) platform;     *)
(*   "shared"   src/glhl.go: the C helper glhlNewContext, with             *)
(*              NewSharedContext.                                          *)
(*                                                                         *)
(* The EGL library, libgbm and the operating system are the environment:   *)
(* the calls that acquire a resource fail or succeed as the record `e`     *)
(* (one field per native call) says; the calls on an existing handle       *)
(* (eglMakeCurrent, eglDestroyContext) answer as EGL 1.5 prescribes for    *)
(* the state of that handle. A library call is made by a goroutine on the  *)
(* OS thread `t`. Under Spec the caller has pinned the goroutine to its    *)
(* thread (runtime.LockOSThread) and the call runs on `t` from start to    *)
(* end; under SpecUnlocked it has not, and the Go runtime may run a later  *)
(* cgo call of the same goroutine on another thread.                       *)
(***************************************************************************)
EXTENDS Integers, Sequences, FiniteSets, TLC

\* ------------------------------------------------------------------ bounds
NThreads == 2
MaxCtx == 2
MaxDev == 2
\* The codes Error.Error is applied to: those within MaxSmall of 0, and the
\* native codes with Margin more on each side.
MaxSmall == 3
Margin == 8

Threads == 1..NThreads
Versions == {<<3, 3>>, <<4, 6>>}

\* --------------------------------------------------------------- constants
\* type Flag: Core Flag = 1 << iota; Compatibility; Debug
Core == 1
Compatibility == 2
Debug == 4
AllFlags == 0..7

EGL_CONTEXT_OPENGL_CORE_PROFILE_BIT == 1
EGL_CONTEXT_OPENGL_COMPATIBILITY_PROFILE_BIT == 2

EGL_SUCCESS == 12288
EGL_NOT_INITIALIZED == 12289
EGL_BAD_ACCESS == 12290
EGL_BAD_ALLOC == 12291
EGL_BAD_ATTRIBUTE == 12292
EGL_BAD_CONFIG == 12293
EGL_BAD_CONTEXT == 12294
EGL_BAD_CURRENT_SURFACE == 12295
EGL_BAD_DISPLAY == 12296
EGL_BAD_MATCH == 12297
EGL_BAD_NATIVE_PIXMAP == 12298
EGL_BAD_NATIVE_WINDOW == 12299
EGL_BAD_PARAMETER == 12300
EGL_BAD_SURFACE == 12301
EGL_CONTEXT_LOST == 12302

\* The -1 glhlNewContext returns for "zero configs matched".
NoConfigCode == -1

EGL_NO_DISPLAY == 0
EGL_NO_CONTEXT == 0
\* A nil *C.struct_gbm_device, a nil *os.File.
Nil == 0
\* The handle eglGetDisplay(EGL_DEFAULT_DISPLAY) answers with.
DefaultDisplay == 1
\* The handle eglGetPlatformDisplay answers with for gbm device g.
PlatformDisplay(g) == DefaultDisplay + g

\* The codes each acquiring call can fail with.
InitializeFailures == {EGL_NOT_INITIALIZED}
ChooseConfigFailures == {EGL_BAD_ATTRIBUTE}
BindAPIFailures == {EGL_BAD_PARAMETER}
CreateContextFailures == {EGL_BAD_MATCH, EGL_BAD_ATTRIBUTE}

\* ------------------------------------------------------------------ errors
\* A Go error value: its kind and, where it is or wraps an Error, the code.
Err(kind, code) == [kind |-> kind, code |-> code]
NilErr == Err("nil", 0)
\* The error of a call that was not made.
NotRun == Err("notrun", 0)
ErrNoDisplay == Err("ErrNoDisplay", 0)
ErrNoConfig == Err("ErrNoConfig", 0)
ErrUnsupported == Err("ErrUnsupported", 0)
ErrGBM == Err("ErrGBM", 0)
\* The *PathError of os.OpenFile.
ErrOpen == Err("PathError", 0)
\* type Error int
Error(code) == Err("Error", code)
\* fmt.Errorf(stage + ": %w", err)
Errorf(stage, err) == Err(stage, err.code)

\* The name Error() gives a code of EGL's table, "" for any other code.
KindText(code) ==
    CASE code = EGL_NOT_INITIALIZED -> "not initialized"
      [] code = EGL_BAD_ACCESS -> "bad access"
      [] code = EGL_BAD_ALLOC -> "bad alloc"
      [] code = EGL_BAD_ATTRIBUTE -> "bad attribute"
      [] code = EGL_BAD_CONFIG -> "bad config"
      [] code = EGL_BAD_CONTEXT -> "bad context"
      [] code = EGL_BAD_CURRENT_SURFACE -> "bad current surface"
      [] code = EGL_BAD_DISPLAY -> "bad display"
      [] code = EGL_BAD_MATCH -> "bad match"
      [] code = EGL_BAD_NATIVE_PIXMAP -> "bad native pixmap"
      [] code = EGL_BAD_NATIVE_WINDOW -> "bad native window"
      [] code = EGL_BAD_PARAMETER -> "bad parameter"
      [] code = EGL_BAD_SURFACE -> "bad surface"
      [] code = EGL_CONTEXT_LOST -> "context lost"
      [] OTHER -> ""

\* func (err Error) Error() string, part_000 and platform_none.go; a text is
\* the sequence of its pieces.
Error_Error(code) ==
    IF KindText(code) # "" THEN <<KindText(code)>>
    ELSE <<"unknown error: ", ToString(code)>>

\* Error() of glhl.go without its `case -1`.
Error_Error_shared_native(code) ==
    IF KindText(code) # "" THEN <<"EGL error: ", KindText(code)>>
    ELSE <<"unknown EGL error: ", ToString(code)>>

\* func (err Error) Error() string, glhl.go
Error_Error_shared(code) ==
    IF code = NoConfigCode THEN <<"EGL error: ", "no matching config">>
    ELSE IF KindText(code) # "" THEN <<"EGL error: ", KindText(code)>>
    ELSE <<"unknown EGL error: ", ToString(code)>>

\* err.Error() of the errors a construction returns.
Message(err) ==
    CASE err.kind = "Error" -> Error_Error_shared(err.code)
      [] err.kind = "ErrNoDisplay" -> <<"No valid EGL display">>
      [] err.kind = "ErrNoConfig" -> <<"No valid EGL config">>
      [] err.kind = "ErrUnsupported" -> <<"Extension is unsupported">>
      [] err.kind = "ErrGBM" -> <<"GBM error">>
      [] err.kind \in {"eglInitialize", "eglChooseConfig", "eglBindAPI",
                       "eglCreateContext"} ->
           <<err.kind, ": ">> \o Error_Error(err.code)
      [] OTHER -> <<err.kind>>

\* -------------------------------------------------------------------- bits
HasBit(x, b) == (x \div b) % 2 = 1
BitOr(x, b) == IF HasBit(x, b) THEN x ELSE x + b

\* --------------------------------------------------------------- the world
\* fds: the open file descriptors; gbms: the allocated gbm devices (a device
\* is named by the descriptor it was made from); dpyInit: the initialized
\* displays; ctxAlive: the valid context handles; share: each context's share
\* group; current, lastError: EGL's per-thread state; closes, destroys: how
\* often a descriptor was closed and a device destroyed (2: more than once);
\* log: the native calls of the running library call, in order; attr: the
\* attribute list its eglCreateContext was given; sched: the thread the Go
\* runtime moves a goroutine to between two cgo calls (0: it stays where it
\* is); last: the status of the latest EGL call, on whatever thread; misread:
\* whether an eglGetError of the running library call read something else than
\* the status of the EGL call made just before it.
World0 ==
    [fds |-> {}, nextFd |-> 1, gbms |-> {},
     dpyInit |-> {}, ctxAlive |-> {}, nextCtx |-> 1,
     share |-> [c \in {} |-> 0],
     current |-> [t \in Threads |-> EGL_NO_CONTEXT],
     lastError |-> [t \in Threads |-> EGL_SUCCESS],
     closes |-> [f \in {} |-> 0], destroys |-> [g \in {} |-> 0],
     log |-> <<>>, attr |-> <<>>,
     sched |-> 0, last |-> EGL_SUCCESS, misread |-> FALSE]

\* type Context struct { dpy; ctx; gbm; gbmf } (gbm, gbmf: part_000 only)
Context(dpy, ctx, gbm, gbmf) == [dpy |-> dpy, ctx |-> ctx, gbm |-> gbm, gbmf |-> gbmf]
ZeroContext == Context(EGL_NO_DISPLAY, EGL_NO_CONTEXT, Nil, Nil)

Once(n) == IF n >= 1 THEN 2 ELSE 1
Count(f, x) == IF x \in DOMAIN f THEN f[x] ELSE 0
Bump(f, x) == [y \in DOMAIN f \cup {x} |-> IF y = x THEN Once(Count(f, x)) ELSE f[y]]

\* A call that is not EGL's: it leaves the thread's last error alone.
LogCall(w, name) == [w EXCEPT !.log = Append(@, name)]
\* An EGL call on thread t: it leaves its status in t's last error.
EglCall(w, t, name, code) ==
    [w EXCEPT !.lastError[t] = code, !.log = Append(@, name),
              !.last = code]

\* eglGetError: the thread's last error, which it resets.
eglGetError(w, t) ==
    [w |-> [EglCall(w, t, "eglGetError", EGL_SUCCESS)
              EXCEPT !.misread = @ \/ w.last # w.lastError[t]],
     code |-> w.lastError[t]]

\* The thread a goroutine called on t makes its next cgo call on.
NextThread(w, t) == IF w.sched = 0 THEN t ELSE w.sched

\* C.eglGetError() from Go: a cgo call of its own.
C_eglGetError(w, t) == eglGetError(w, NextThread(w, t))

\* eglError without its test: the code is read and dropped.
eglError_dropped(w, t) == [w |-> eglGetError(w, t).w, err |-> NilErr]

\* func eglError() error
eglError(w, t) ==
    LET g == C_eglGetError(w, t)
    IN [w |-> g.w,
        err |-> IF g.code = EGL_SUCCESS THEN NilErr ELSE Error(g.code)]

\* eglInitialize(dpy): code is the environment's answer for a display.
eglInitialize(w, t, dpy, code) ==
    LET c == IF dpy = EGL_NO_DISPLAY THEN EGL_BAD_DISPLAY ELSE code
        w1 == EglCall(w, t, "eglInitialize", c)
    IN [w |-> IF c = EGL_SUCCESS THEN [w1 EXCEPT !.dpyInit = @ \cup {dpy}] ELSE w1,
        ok |-> c = EGL_SUCCESS]

\* (*os.File).Close
Close(w, f) ==
    [LogCall(w, "Close") EXCEPT !.fds = @ \ {f}, !.closes = Bump(@, f)]

\* gbm_device_destroy
gbm_device_destroy(w, g) ==
    [LogCall(w, "gbm_device_destroy") EXCEPT !.gbms = @ \ {g}, !.destroys = Bump(@, g)]

\* ------------------------------------------------------- the environment
\* One answer per acquiring native call of a construction. The answers of the
\* calls a construction does not reach are fixed (success), so that no two
\* records stand for the same run.
MkEnv(g, p, c) ==
    [display |-> g[1], init |-> g[2],
     ext |-> p[1], open |-> p[2], gbm |-> p[3], pdisplay |-> p[4], pinit |-> p[5],
     choose |-> c[1], nconf |-> c[2], bind |-> c[3], create |-> c[4]]

\* eglGetDisplay, eglInitialize
GenericOk == <<TRUE, EGL_SUCCESS>>
GenericFails ==
    {<<FALSE, EGL_SUCCESS>>} \cup {<<TRUE, c>> : c \in InitializeFailures}

\* eglQueryString, os.OpenFile, gbm_create_device, eglGetPlatformDisplay,
\* eglInitialize
PlatformOk == <<TRUE, TRUE, TRUE, TRUE, EGL_SUCCESS>>
PlatformFails ==
    {<<FALSE, TRUE, TRUE, TRUE, EGL_SUCCESS>>, <<TRUE, FALSE, TRUE, TRUE, EGL_SUCCESS>>,
     <<TRUE, TRUE, FALSE, TRUE, EGL_SUCCESS>>, <<TRUE, TRUE, TRUE, FALSE, EGL_SUCCESS>>}
    \cup {<<TRUE, TRUE, TRUE, TRUE, c>> : c \in InitializeFailures}

\* eglChooseConfig and its nconf, eglBindAPI, eglCreateContext
CreationOk == <<EGL_SUCCESS, 1, EGL_SUCCESS, EGL_SUCCESS>>
Creations ==
    {<<c, 1, EGL_SUCCESS, EGL_SUCCESS>> : c \in ChooseConfigFailures}
    \cup {<<EGL_SUCCESS, 0, EGL_SUCCESS, EGL_SUCCESS>>}
    \cup {<<EGL_SUCCESS, 1, c, EGL_SUCCESS>> : c \in BindAPIFailures}
    \cup {<<EGL_SUCCESS, 1, EGL_SUCCESS, c>> : c \in CreateContextFailures}
    \cup {CreationOk}

EnvOk == MkEnv(GenericOk, PlatformOk, CreationOk)

\* The environments of the variants without a device path.
EnvGeneric ==
    {MkEnv(GenericOk, PlatformOk, c) : c \in Creations}
    \cup {MkEnv(g, PlatformOk, CreationOk) : g \in GenericFails}

\* The environments of part_000.
EnvGBM ==
    {MkEnv(GenericOk, PlatformOk, c) : c \in Creations}
    \cup {MkEnv(g, PlatformOk, c) : g \in GenericFails, c \in Creations}
    \cup {MkEnv(g, p, CreationOk) : g \in GenericFails, p \in PlatformFails}

Env(b) == IF b = "gbm" THEN EnvGBM ELSE EnvGeneric

\* ---------------------------------------------------- display resolution
\* func initGeneric(ctx *Context) error
initGeneric(w, t, ctx, e) ==
    LET w1 == EglCall(w, t, "eglGetDisplay", EGL_SUCCESS)
        c1 == [ctx EXCEPT !.dpy = IF e.display THEN DefaultDisplay ELSE EGL_NO_DISPLAY]
        i == eglInitialize(w1, t, c1.dpy, e.init)
        ge == eglError(i.w, t)
    IN IF c1.dpy = EGL_NO_DISPLAY
         THEN [w |-> w1, ctx |-> c1, err |-> ErrNoDisplay]
       ELSE IF ~i.ok
         THEN [w |-> ge.w, ctx |-> c1, err |-> Errorf("eglInitialize", ge.err)]
       ELSE [w |-> i.w, ctx |-> c1, err |-> NilErr]

\* func initGBM(ctx *Context) error
initGBM(w, t, ctx, e) ==
    LET w1 == EglCall(w, t, "eglQueryString", EGL_SUCCESS)
        \* os.OpenFile("/dev/dri/card0", os.O_RDWR, 0)
        w2 == LogCall(w1, "os.OpenFile")
        f == w2.nextFd
        w3 == [w2 EXCEPT !.fds = @ \cup {f}, !.nextFd = @ + 1]
        c3 == [ctx EXCEPT !.gbmf = f]
        \* gbm_create_device(ctx.gbmf.Fd())
        w4 == LogCall(w3, "gbm_create_device")
        w5 == [w4 EXCEPT !.gbms = @ \cup {f}]
        c5 == [c3 EXCEPT !.gbm = f]
        \* eglGetPlatformDisplay(egl_PLATFORM_GBM_MESA, ctx.gbm, nil)
        w6 == EglCall(w5, t, "eglGetPlatformDisplay",
                      IF e.pdisplay THEN EGL_SUCCESS ELSE EGL_BAD_PARAMETER)
        c6 == [c5 EXCEPT !.dpy = IF e.pdisplay THEN PlatformDisplay(c5.gbm)
                                               ELSE EGL_NO_DISPLAY]
        i == eglInitialize(w6, t, c6.dpy, e.pinit)
        ge == eglError(i.w, t)
    IN IF ~e.ext
         THEN [w |-> w1, ctx |-> ctx, err |-> ErrUnsupported]
       ELSE IF ~e.open
         THEN [w |-> w2, ctx |-> [ctx EXCEPT !.gbmf = Nil], err |-> ErrOpen]
       ELSE IF ~e.gbm
         THEN [w |-> Close(w4, c3.gbmf), ctx |-> [c3 EXCEPT !.gbm = Nil], err |-> ErrGBM]
       ELSE IF c6.dpy = EGL_NO_DISPLAY
         THEN [w |-> Close(gbm_device_destroy(w6, c6.gbm), c6.gbmf),
               ctx |-> c6, err |-> ErrNoDisplay]
       ELSE IF ~i.ok
         THEN [w |-> ge.w, ctx |-> c6, err |-> Errorf("eglInitialize", ge.err)]
       ELSE [w |-> i.w, ctx |-> c6, err |-> NilErr]

\* The profile mask of the package's first version: Core stands in for no
\* flags at all, and not for a missing profile.
ProfileMask_first(flags) ==
    LET f == IF flags = 0 THEN Core ELSE flags
        profile == IF HasBit(f, Core)
                     THEN BitOr(0, EGL_CONTEXT_OPENGL_CORE_PROFILE_BIT)
                     ELSE 0
    IN IF HasBit(f, Compatibility)
         THEN BitOr(profile, EGL_CONTEXT_OPENGL_COMPATIBILITY_PROFILE_BIT)
         ELSE profile

\* ------------------------------------------------------ context creation
\* The profile mask of newContext: Compatibility if asked for, Core if asked
\* for or if nothing else was.
ProfileMask(flags) ==
    LET profile == IF HasBit(flags, Compatibility)
                     THEN BitOr(0, EGL_CONTEXT_OPENGL_COMPATIBILITY_PROFILE_BIT)
                     ELSE 0
    IN IF HasBit(flags, Core) \/ profile = 0
         THEN BitOr(profile, EGL_CONTEXT_OPENGL_CORE_PROFILE_BIT)
         ELSE profile

\* flags == Debug
DebugFlag_equal(flags) == flags = Debug

\* flags&Debug != 0
DebugFlag(flags) == HasBit(flags, Debug)

\* ctxAttr of newContext (part_000, platform_none.go): the debug attribute is
\* appended when the flag is set.
ctxAttr(major, minor, flags) ==
    <<"EGL_CONTEXT_MAJOR_VERSION", major,
      "EGL_CONTEXT_MINOR_VERSION", minor,
      "EGL_CONTEXT_OPENGL_PROFILE_MASK", ProfileMask(flags)>>
    \o (IF DebugFlag(flags) THEN <<"EGL_CONTEXT_OPENGL_DEBUG", 1>> ELSE <<>>)
    \o <<"EGL_NONE">>

\* ctxAttr of glhlNewContext (glhl.go): the debug attribute is always there.
ctxAttrC(major, minor, profile, debug) ==
    <<"EGL_CONTEXT_MAJOR_VERSION", major,
      "EGL_CONTEXT_MINOR_VERSION", minor,
      "EGL_CONTEXT_OPENGL_PROFILE_MASK", profile,
      "EGL_CONTEXT_OPENGL_DEBUG", IF debug THEN 1 ELSE 0,
      "EGL_NONE">>

\* eglCreateContext(dpy, conf, sharedWith, attr): code is the environment's
\* answer for valid arguments. A new context gets a fresh handle and joins the
\* share group of sharedWith, or starts its own.
eglCreateContext(w, t, dpy, sharedWith, attr, code) ==
    LET c == IF dpy = EGL_NO_DISPLAY THEN EGL_BAD_DISPLAY
             ELSE IF dpy \notin w.dpyInit THEN EGL_NOT_INITIALIZED
             ELSE IF sharedWith # EGL_NO_CONTEXT /\ sharedWith \notin w.ctxAlive
               THEN EGL_BAD_CONTEXT
             ELSE code
        h == w.nextCtx
        w1 == [EglCall(w, t, "eglCreateContext", c) EXCEPT !.attr = attr]
    IN IF c = EGL_SUCCESS
         THEN [w |-> [w1 EXCEPT !.ctxAlive = @ \cup {h}, !.nextCtx = @ + 1,
                                !.share = [x \in DOMAIN @ \cup {h} |->
                                             IF x # h THEN @[x]
                                             ELSE IF sharedWith = EGL_NO_CONTEXT THEN h
                                             ELSE @[sharedWith]]],
               ctx |-> h]
         ELSE [w |-> w1, ctx |-> EGL_NO_CONTEXT]

\* `return ctx, err` on every path: the named result, as far as it got.
Result_named(w, ctx, err, work, gerr, perr) ==
    [w |-> w, ctx |-> work, err |-> err, work |-> work, gerr |-> gerr, perr |-> perr]

\* What a construction hands back: the world it leaves, the Context and the
\* error it returns, and three things the caller does not see: the working
\* Context at the return, and the errors of the two display strategies.
Result(w, ctx, err, work, gerr, perr) ==
    [w |-> w, ctx |-> ctx, err |-> err, work |-> work, gerr |-> gerr, perr |-> perr]

\* `return Context{}, err` with the error of the fallback.
FallbackError_platform(generic, platform) == platform

\* newContext, both strategies failed: `return Context{}, err`, err being the
\* one of `if err := initGeneric(&ctx); err != nil`.
FallbackError(generic, platform) == generic

\* nconf < 0
NoConfig_negative(nconf) == nconf < 0

\* nconf < 1
NoConfig(nconf) == nconf < 1

\* The answer of eglBindAPI not looked at.
BindFailed_ignored(code) == FALSE

\* `if C.eglBindAPI(C.EGL_OPENGL_API) == 0`, `if (!eglBindAPI(EGL_OPENGL_API))`
BindFailed(code) == code # EGL_SUCCESS

\* The device path tried whatever initGeneric returned.
Fallback_always(generic) == TRUE

\* newContext: `if err := initGeneric(&ctx); err != nil { initGBM(&ctx) ... }`
Fallback(generic) == generic # NilErr

\* func newContext(major, minor int, flags Flag) (ctx Context, err error), part_000
newContext_gbm(w, t, major, minor, flags, e) ==
    LET g == initGeneric(w, t, ZeroContext, e)
        p == IF Fallback(g.err) THEN initGBM(g.w, t, g.ctx, e)
             ELSE [w |-> g.w, ctx |-> g.ctx, err |-> NotRun]
        R(wx, cx, ex, work) == Result(wx, cx, ex, work, g.err, p.err)
        w1 == EglCall(p.w, t, "eglChooseConfig", e.choose)
        e1 == eglError(w1, t)
        w2 == EglCall(w1, t, "eglBindAPI", e.bind)
        e2 == eglError(w2, t)
        cc == eglCreateContext(w2, t, p.ctx.dpy, EGL_NO_CONTEXT,
                               ctxAttr(major, minor, flags), e.create)
        c3 == [p.ctx EXCEPT !.ctx = cc.ctx]
        e3 == eglError(cc.w, t)
    IN IF g.err # NilErr /\ p.err # NilErr
         THEN R(p.w, ZeroContext, FallbackError(g.err, p.err), p.ctx)
       ELSE IF e.choose # EGL_SUCCESS
         THEN R(e1.w, ZeroContext, Errorf("eglChooseConfig", e1.err), p.ctx)
       ELSE IF NoConfig(e.nconf)
         THEN R(w1, ZeroContext, ErrNoConfig, p.ctx)
       ELSE IF BindFailed(e.bind)
         THEN R(e2.w, ZeroContext, Errorf("eglBindAPI", e2.err), p.ctx)
       ELSE IF e3.err # NilErr
         THEN R(e3.w, ZeroContext, Errorf("eglCreateContext", e3.err), c3)
       ELSE R(e3.w, c3, NilErr, c3)

\* func initPlatform(ctx *Context) error, the !linux platform
initPlatform(w, t, ctx, e) ==
    [w |-> w, ctx |-> ctx, err |-> Err("No platform-specific init", 0)]

\* func (platformContext) Destroy() {}
platformContext_Destroy(w, ctx) == w

\* func newContext(major, minor int, flags Flag) (ctx Context, err error),
\* platform_none.go
newContext_platform(w, t, major, minor, flags, e) ==
    LET g == initGeneric(w, t, ZeroContext, e)
        p == IF g.err # NilErr THEN initPlatform(g.w, t, g.ctx, e)
             ELSE [w |-> g.w, ctx |-> g.ctx, err |-> NotRun]
        R(wx, cx, ex, work) == Result(wx, cx, ex, work, g.err, p.err)
        w1 == EglCall(p.w, t, "eglChooseConfig", e.choose)
        e1 == eglError(platformContext_Destroy(w1, p.ctx), t)
        w2 == EglCall(w1, t, "eglBindAPI", e.bind)
        e2 == eglError(platformContext_Destroy(w2, p.ctx), t)
        cc == eglCreateContext(w2, t, p.ctx.dpy, EGL_NO_CONTEXT,
                               ctxAttr(major, minor, flags), e.create)
        c3 == [p.ctx EXCEPT !.ctx = cc.ctx]
        e3 == eglError(cc.w, t)
    IN IF g.err # NilErr /\ p.err # NilErr
         THEN R(p.w, ZeroContext, FallbackError(g.err, p.err), p.ctx)
       ELSE IF e.choose # EGL_SUCCESS
         THEN R(e1.w, ZeroContext, Errorf("eglChooseConfig", e1.err), p.ctx)
       ELSE IF NoConfig(e.nconf)
         THEN R(platformContext_Destroy(w1, p.ctx), ZeroContext, ErrNoConfig, p.ctx)
       ELSE IF BindFailed(e.bind)
         THEN R(e2.w, ZeroContext, Errorf("eglBindAPI", e2.err), p.ctx)
       ELSE IF e3.err # NilErr
         THEN R(platformContext_Destroy(e3.w, c3), ZeroContext,
                Errorf("eglCreateContext", e3.err), c3)
       ELSE R(e3.w, c3, NilErr, c3)

\* int glhlNewContext(major, minor, profile, debug, *dpy, *ctx, sharedWith):
\* the code it returns, and *dpy and *ctx in `ctx`.
glhlNewContext(w, t, major, minor, profile, debug, ctx, sharedWith, e) ==
    LET w0 == EglCall(w, t, "eglGetDisplay", EGL_SUCCESS)
        c0 == [ctx EXCEPT !.dpy = IF e.display THEN DefaultDisplay ELSE EGL_NO_DISPLAY]
        i == eglInitialize(w0, t, c0.dpy, e.init)
        w1 == EglCall(i.w, t, "eglChooseConfig", e.choose)
        w2 == EglCall(w1, t, "eglBindAPI", e.bind)
        cc == eglCreateContext(w2, t, c0.dpy, sharedWith,
                               ctxAttrC(major, minor, profile, debug), e.create)
        c3 == [c0 EXCEPT !.ctx = cc.ctx]
        error(wx, cx) == LET g == eglGetError(wx, t)
                         IN [w |-> g.w, ctx |-> cx, code |-> g.code]
    IN IF ~i.ok THEN error(i.w, c0)
       ELSE IF e.choose # EGL_SUCCESS THEN error(w1, c0)
       ELSE IF NoConfig(e.nconf) THEN [w |-> w1, ctx |-> c0, code |-> NoConfigCode]
       ELSE IF BindFailed(e.bind) THEN error(w2, c0)
       ELSE error(cc.w, c3)

\* func newContext(major, minor int, flags Flag, sharedWith C.EGLContext), glhl.go
newContext_shared(w, t, major, minor, flags, sharedWith, e) ==
    LET r == glhlNewContext(w, t, major, minor, ProfileMask(flags),
                            DebugFlag(flags), ZeroContext, sharedWith, e)
    IN IF r.code # EGL_SUCCESS
         THEN Result(r.w, ZeroContext, Error(r.code), r.ctx, NotRun, NotRun)
         ELSE Result(r.w, r.ctx, NilErr, r.ctx, NotRun, NotRun)

\* ------------------------------------------------- calls on a Context
\* eglDestroyContext(dpy, ctx): the handle is invalid from here on; a context
\* that is current stays so until its thread lets go of it.
eglDestroyContext(w, t, dpy, ctx) ==
    LET c == IF dpy = EGL_NO_DISPLAY THEN EGL_BAD_DISPLAY
             ELSE IF dpy \notin w.dpyInit THEN EGL_NOT_INITIALIZED
             ELSE IF ctx \notin w.ctxAlive THEN EGL_BAD_CONTEXT
             ELSE EGL_SUCCESS
        w1 == EglCall(w, t, "eglDestroyContext", c)
    IN [w |-> IF c = EGL_SUCCESS THEN [w1 EXCEPT !.ctxAlive = @ \ {ctx}] ELSE w1,
        ok |-> c = EGL_SUCCESS]

\* eglMakeCurrent(dpy, EGL_NO_SURFACE, EGL_NO_SURFACE, ctx), the backend
\* supporting surfaceless contexts: a context current on another thread is
\* refused with EGL_BAD_ACCESS.
MakeCurrentCode(w, t, dpy, ctx) ==
    IF dpy = EGL_NO_DISPLAY THEN EGL_BAD_DISPLAY
    ELSE IF dpy \notin w.dpyInit THEN EGL_NOT_INITIALIZED
    ELSE IF ctx = EGL_NO_CONTEXT THEN EGL_SUCCESS
    ELSE IF ctx \notin w.ctxAlive THEN EGL_BAD_CONTEXT
    ELSE IF \E u \in Threads \ {t} : w.current[u] = ctx THEN EGL_BAD_ACCESS
    ELSE EGL_SUCCESS

eglMakeCurrent(w, t, dpy, ctx) ==
    LET c == MakeCurrentCode(w, t, dpy, ctx)
        w1 == EglCall(w, t, "eglMakeCurrent", c)
    IN [w |-> IF c = EGL_SUCCESS THEN [w1 EXCEPT !.current[t] = ctx] ELSE w1,
        ok |-> c = EGL_SUCCESS]

\* The descriptor closed under the device that still uses it.
releaseDevice_closeFirst(w, ctx) ==
    IF ctx.gbm # Nil
      THEN gbm_device_destroy(Close(w, ctx.gbmf), ctx.gbm)
      ELSE w

\* Destroy, after eglDestroyContext: `if ctx.gbm != nil { ... }`
releaseDevice(w, ctx) ==
    IF ctx.gbm # Nil
      THEN Close(gbm_device_destroy(w, ctx.gbm), ctx.gbmf)
      ELSE w

\* Destroy with the answer of eglDestroyContext not looked at.
Destroy_gbm_unchecked(w, t, ctx) ==
    [w |-> releaseDevice(eglDestroyContext(w, t, ctx.dpy, ctx.ctx).w, ctx),
     panic |-> NilErr]

\* Destroy that releases the device before it looks at the answer.
Destroy_gbm_releaseFirst(w, t, ctx) ==
    LET d == eglDestroyContext(w, t, ctx.dpy, ctx.ctx)
        g == C_eglGetError(releaseDevice(d.w, ctx), t)
    IN IF ~d.ok
         THEN [w |-> g.w, panic |-> Error(g.code)]
         ELSE [w |-> releaseDevice(d.w, ctx), panic |-> NilErr]

\* func (ctx Context) Destroy(), part_000: the world it leaves and the value
\* it panics with (NilErr: it returns).
Destroy_gbm(w, t, ctx) ==
    LET d == eglDestroyContext(w, t, ctx.dpy, ctx.ctx)
        g == C_eglGetError(d.w, t)
    IN IF ~d.ok
         THEN [w |-> g.w, panic |-> Error(g.code)]
         ELSE [w |-> releaseDevice(d.w, ctx), panic |-> NilErr]

\* func (ctx Context) Destroy(), platform_none.go
Destroy_platform(w, t, ctx) ==
    LET d == eglDestroyContext(w, t, ctx.dpy, ctx.ctx)
        g == C_eglGetError(d.w, t)
    IN IF ~d.ok
         THEN [w |-> g.w, panic |-> Error(g.code)]
         ELSE [w |-> platformContext_Destroy(d.w, ctx), panic |-> NilErr]

\* Destroy that also ends the display connection (eglTerminate).
Destroy_shared_terminate(w, t, ctx) ==
    LET d == eglDestroyContext(w, t, ctx.dpy, ctx.ctx)
        g == C_eglGetError(d.w, t)
    IN IF ~d.ok
         THEN [w |-> g.w, panic |-> Error(g.code)]
         ELSE [w |-> [EglCall(d.w, t, "eglTerminate", EGL_SUCCESS)
                        EXCEPT !.dpyInit = @ \ {ctx.dpy}],
               panic |-> NilErr]

\* func (ctx Context) Destroy(), glhl.go
Destroy_shared(w, t, ctx) ==
    LET d == eglDestroyContext(w, t, ctx.dpy, ctx.ctx)
        g == C_eglGetError(d.w, t)
    IN IF ~d.ok
         THEN [w |-> g.w, panic |-> Error(g.code)]
         ELSE [w |-> d.w, panic |-> NilErr]

\* int glhlMakeContextCurrent(EGLDisplay dpy, EGLContext ctx)
glhlMakeContextCurrent(w, t, dpy, ctx) ==
    LET w1 == EglCall(w, t, "eglBindAPI", EGL_SUCCESS)
        m == eglMakeCurrent(w1, t, dpy, ctx)
        g == eglGetError(m.w, t)
    IN IF ~m.ok THEN [w |-> g.w, code |-> g.code]
       ELSE [w |-> m.w, code |-> EGL_SUCCESS]

\* The code tested against EGL_FALSE.
Failed_false(code) == code # 0

\* The test of MakeContextCurrent: `if code != C.EGL_SUCCESS { panic }`
Failed(code) == code # EGL_SUCCESS

\* func (ctx Context) MakeContextCurrent(), part_000 and platform_none.go
MakeContextCurrent_gbm(w, t, ctx) ==
    LET r == glhlMakeContextCurrent(w, t, ctx.dpy, ctx.ctx)
    IN IF Failed(r.code)
         THEN [w |-> r.w, panic |-> Error(r.code)]
         ELSE [w |-> r.w, panic |-> NilErr]

\* func (ctx Context) MakeContextCurrent(), glhl.go
MakeContextCurrent_shared(w, t, ctx) ==
    LET m == eglMakeCurrent(w, t, ctx.dpy, ctx.ctx)
        g == C_eglGetError(m.w, t)
    IN IF ~m.ok
         THEN [w |-> g.w, panic |-> Error(g.code)]
         ELSE [w |-> m.w, panic |-> NilErr]

\* Release that resets the thread's error state only.
Release_keepCurrent(w, t) ==
    [w |-> EglCall(w, t, "eglReleaseThread", EGL_SUCCESS), panic |-> NilErr]

\* func Release(): eglReleaseThread lets go of the thread's current context
\* and of its EGL state.
Release_gbm(w, t) ==
    [w |-> [EglCall(w, t, "eglReleaseThread", EGL_SUCCESS)
              EXCEPT !.current[t] = EGL_NO_CONTEXT],
     panic |-> NilErr]

\* ----------------------------------------------------- the state machine
\* build: the variant; world: the backend and the operating system; held: the
\* Contexts the constructors returned without error, in order (a Context is a
\* value: the caller keeps it after Destroy); ret: the last library call, its
\* arguments and what it returned or panicked with, and the context that was
\* current on its thread when it began.
VARIABLES build, world, held, ret

vars == <<build, world, held, ret>>

Builds == {"gbm", "platform", "shared"}

\* What ret records of the state a call on a Context found: whether the
\* context's handle was valid, and whether it was current on the caller's
\* thread, or on another one.
Pre(w, t, ctx) ==
    [alive |-> ctx.ctx \in w.ctxAlive,
     mine |-> w.current[t] = ctx.ctx,
     elsewhere |-> \E u \in Threads \ {t} : w.current[u] = ctx.ctx]
\* Release has no Context: it acts on the one current on its thread.
WasCurrent(w, t) == [ZeroContext EXCEPT !.ctx = w.current[t]]
NoPre == [alive |-> FALSE, mine |-> FALSE, elsewhere |-> FALSE]

Ret0 ==
    [op |-> "none", t |-> 0, i |-> 0, major |-> 0, minor |-> 0, flags |-> 0,
     e |-> EnvOk, ctx |-> ZeroContext, err |-> NilErr, work |-> ZeroContext,
     gerr |-> NotRun, perr |-> NotRun, panic |-> NilErr, pre |-> NoPre,
     was |-> EGL_NO_CONTEXT, text |-> <<>>]

Begin(w) == [w EXCEPT !.log = <<>>, !.attr = <<>>, !.misread = FALSE]

Init ==
    /\ build \in Builds
    /\ world = World0
    /\ held = <<>>
    /\ ret = Ret0

Constructed(op, t, i, v, flags, e, r) ==
    /\ world' = r.w
    /\ held' = IF r.err = NilErr THEN Append(held, r.ctx) ELSE held
    /\ ret' = [Ret0 EXCEPT !.op = op, !.t = t, !.i = i, !.major = v[1],
                           !.minor = v[2], !.flags = flags, !.e = e,
                           !.ctx = r.ctx, !.err = r.err, !.work = r.work,
                           !.gerr = r.gerr, !.perr = r.perr,
                           !.was = world.current[t]]
    /\ UNCHANGED build

\* func NewContext(major, minor int, flags Flag) (Context, error)
NewContext(t, v, flags, e) ==
    /\ world.nextCtx <= MaxCtx
    /\ world.nextFd <= MaxDev
    /\ Len(held) < MaxCtx
    /\ Constructed("NewContext", t, 0, v, flags, e,
         CASE build = "gbm" -> newContext_gbm(Begin(world), t, v[1], v[2], flags, e)
           [] build = "platform" ->
                newContext_platform(Begin(world), t, v[1], v[2], flags, e)
           [] build = "shared" ->
                newContext_shared(Begin(world), t, v[1], v[2], flags, EGL_NO_CONTEXT, e))

\* func NewSharedContext(major, minor int, flags Flag, sharedWith Context)
NewSharedContext(t, v, flags, i, e) ==
    /\ build = "shared"
    /\ world.nextCtx <= MaxCtx
    /\ Len(held) < MaxCtx
    /\ i \in DOMAIN held
    /\ Constructed("NewSharedContext", t, i, v, flags, e,
         newContext_shared(Begin(world), t, v[1], v[2], flags, held[i].ctx, e))

Called(op, t, i, r) ==
    /\ world' = r.w
    /\ ret' = [Ret0 EXCEPT !.op = op, !.t = t, !.i = i,
                           !.ctx = IF i = 0 THEN ZeroContext ELSE held[i],
                           !.panic = r.panic,
                           !.pre = Pre(world, t, IF i # 0 THEN held[i]
                                                 ELSE WasCurrent(world, t)),
                           !.was = world.current[t]]
    /\ UNCHANGED <<build, held>>

\* ctx.Destroy() on the i-th Context held
Destroy(t, i) ==
    /\ i \in DOMAIN held
    /\ Called("Destroy", t, i,
         CASE build = "gbm" -> Destroy_gbm(Begin(world), t, held[i])
           [] build = "platform" -> Destroy_platform(Begin(world), t, held[i])
           [] build = "shared" -> Destroy_shared(Begin(world), t, held[i]))

\* ctx.MakeContextCurrent() on the i-th Context held
MakeContextCurrent(t, i) ==
    /\ i \in DOMAIN held
    /\ Called("MakeContextCurrent", t, i,
         IF build = "shared"
           THEN MakeContextCurrent_shared(Begin(world), t, held[i])
           ELSE MakeContextCurrent_gbm(Begin(world), t, held[i]))

\* Release(), which glhl.go does not have
Release(t) ==
    /\ build # "shared"
    /\ Called("Release", t, 0, Release_gbm(Begin(world), t))

\* The arguments of a construction: <<major, minor>> and flags.
AllArgs == Versions \X AllFlags
\* The two constructions of the package's documentation and test.
FewArgs == {<<<<3, 3>>, 0>>, <<<<4, 6>>, Core + Debug>>}

\* The environments in which a construction reaches eglCreateContext.
EnvCreating(b) == {e \in Env(b) : e.choose = EGL_SUCCESS /\ e.nconf = 1
                                  /\ e.bind = EGL_SUCCESS
                                  /\ e.create \in {EGL_SUCCESS, EGL_BAD_MATCH}
                                  /\ e.pinit = EGL_SUCCESS /\ e.ext /\ e.open
                                  /\ e.gbm /\ e.pdisplay}

\* The environments a specification draws from.
Envs(creating) == IF creating THEN EnvCreating(build) ELSE Env(build)

NextOver(Args, creating) ==
    \E t \in Threads :
        \/ \E a \in Args, e \in Envs(creating) : NewContext(t, a[1], a[2], e)
        \/ \E a \in Args, e \in Envs(creating), i \in DOMAIN held :
              NewSharedContext(t, a[1], a[2], i, e)
        \/ \E i \in DOMAIN held : Destroy(t, i)
        \/ \E i \in DOMAIN held : MakeContextCurrent(t, i)
        \/ Release(t)

\* Every environment, the documented arguments.
Next == NextOver(FewArgs, FALSE)

Spec == Init /\ [][Next]_vars

\* The Go runtime's choice of where an unpinned goroutine goes on.
Reschedule(q) ==
    /\ q # world.sched
    /\ world' = [world EXCEPT !.sched = q]
    /\ UNCHANGED <<build, held, ret>>

\* The construction of the package's test.
TestArgs == {<<<<3, 3>>, 0>>}

NextUnlocked ==
    NextOver(TestArgs, FALSE) \/ \E q \in Threads \cup {0} : Reschedule(q)

\* The callers do not pin their goroutines.
SpecUnlocked == Init /\ [][NextUnlocked]_vars

\* Error(code).Error(): the text is left in ret.
Codes == (-MaxSmall..MaxSmall) \cup ((EGL_SUCCESS - Margin)..(EGL_CONTEXT_LOST + Margin))

ErrorText(code) ==
    /\ ret' = [Ret0 EXCEPT !.op = "Error", !.err = Error(code),
                           !.text = IF build = "shared"
                                      THEN Error_Error_shared(code)
                                      ELSE Error_Error(code)]
    /\ UNCHANGED <<build, world, held>>

NextError == \E code \in Codes : ErrorText(code)

\* The error mapper alone, on every code.
SpecError == Init /\ [][NextError]_vars

\* Every argument, the environments that reach eglCreateContext.
NextArgs == NextOver(AllArgs, TRUE)

SpecArgs == Init /\ [][NextArgs]_vars

\* ================================================================ claims
Constructions == {"NewContext", "NewSharedContext"}
LogHas(name) == \E k \in DOMAIN world.log : world.log[k] = name
Failure(err) == err \notin {NilErr, NotRun}

\* The value an attribute list gives an attribute, as EGL reads the list.
RECURSIVE AttrValue(_, _, _)
AttrValue(attr, name, default) ==
    IF attr = <<>> \/ Head(attr) = "EGL_NONE" THEN default
    ELSE IF Head(attr) = name THEN attr[2]
    ELSE AttrValue(SubSeq(attr, 3, Len(attr)), name, default)

\* The error initGeneric owes the caller in environment e.
GenericErrorOf(e) ==
    IF ~e.display THEN ErrNoDisplay ELSE Err("eglInitialize", e.init)
GenericFailed(e) == ~(e.display /\ e.init = EGL_SUCCESS)
PlatformFailed(e) ==
    \/ build = "platform"
    \/ build = "gbm" /\ ~(e.ext /\ e.open /\ e.gbm /\ e.pdisplay
                          /\ e.pinit = EGL_SUCCESS)
\* A Context whose display came from eglGetPlatformDisplay.
DeviceBacked(c) == c.dpy \notin {EGL_NO_DISPLAY, DefaultDisplay}

\* C1: when generic display resolution fails and the device-backed (or
\* platform) resolution fails too, whatever made the second one fail,
\* newContext returns the error of the generic attempt, never the second
\* path's own error, and in particular never Unsupported.
C1_GenericErrorSurfaces ==
    (ret.op = "NewContext" /\ build \in {"gbm", "platform"}
       /\ GenericFailed(ret.e) /\ PlatformFailed(ret.e))
    => /\ ret.err = GenericErrorOf(ret.e)
       /\ ret.err # ErrUnsupported
       /\ ret.ctx = ZeroContext

\* C1, its case: no default display, and the platform extension not advertised.
C1_Witness ==
    /\ ret.op = "NewContext" /\ build = "gbm"
    /\ ~ret.e.display /\ ~ret.e.ext
    /\ ret.perr = ErrUnsupported
    /\ ret.err = ErrNoDisplay

\* C2: when NewContext fails after the device-backed display was resolved (the
\* config query fails, no config matches, the API bind fails, the context
\* creation fails), no device object of the call remains allocated and no
\* device file descriptor of the call remains open.
C2_FailureReleasesDevice ==
    (ret.op = "NewContext" /\ Failure(ret.err)
       /\ GenericFailed(ret.e) /\ ~PlatformFailed(ret.e))
    => /\ ret.work.gbm \notin world.gbms
       /\ ret.work.gbmf \notin world.fds

\* C3: when initGBM fails part of the way (the device node does not open, the
\* device is not allocated, the platform display is null, eglInitialize fails
\* on it), the device file it opened and the device object it allocated are
\* released when it returns.
C3_InitGBMReleasesOnFailure ==
    (ret.op = "NewContext" /\ build = "gbm" /\ Failure(ret.perr))
    => /\ ret.work.gbm \notin world.gbms
       /\ ret.work.gbmf \notin world.fds

\* C4: Destroy on a Context that was constructed and not yet destroyed returns;
\* on a device-backed one it destroys the rendering context, then the device
\* object, then closes the descriptor, each once, and the descriptor is no
\* longer open; on a generic one it destroys the rendering context and
\* nothing else.
C4_DestroyOrder ==
    (ret.op = "Destroy" /\ ret.pre.alive)
    => /\ ret.panic = NilErr
       /\ IF DeviceBacked(ret.ctx)
            THEN /\ world.log = <<"eglDestroyContext", "gbm_device_destroy", "Close">>
                 /\ ret.ctx.gbm \notin world.gbms
                 /\ ret.ctx.gbmf \notin world.fds
                 /\ Count(world.destroys, ret.ctx.gbm) = 1
                 /\ Count(world.closes, ret.ctx.gbmf) = 1
            ELSE /\ world.log = <<"eglDestroyContext">>
                 /\ ret.ctx.gbm = Nil /\ ret.ctx.gbmf = Nil

\* C4, its case: a device-backed Context was destroyed.
C4_Witness ==
    /\ ret.op = "Destroy" /\ ret.pre.alive /\ DeviceBacked(ret.ctx)
    /\ ret.panic = NilErr
    /\ ret.ctx.gbmf \notin world.fds

C7_DestroyLeavesOthers ==
    [][\A i \in DOMAIN held :
         (ret'.op = "Destroy" /\ ret'.i = i)
         => \A j \in DOMAIN held \ {i} :
              /\ held'[j] = held[j]
              /\ held[j].ctx \in world.ctxAlive => held[j].ctx \in world'.ctxAlive
              /\ held[j].dpy \in world.dpyInit => held[j].dpy \in world'.dpyInit
              /\ held[j].gbm \in world.gbms => held[j].gbm \in world'.gbms
              /\ held[j].gbmf \in world.fds => held[j].gbmf \in world'.fds
              /\ \A t \in Threads :
                   MakeCurrentCode(world', t, held[j].dpy, held[j].ctx)
                     = MakeCurrentCode(world, t, held[j].dpy, held[j].ctx)]_vars

\* C7, its case: of two Contexts that share, one is destroyed and the other
\* has just been made current.
C7_Witness ==
    /\ ret.op = "MakeContextCurrent" /\ ret.panic = NilErr
    /\ world.current[ret.t] = ret.ctx.ctx
    /\ \E i \in DOMAIN held :
         /\ held[i].ctx # ret.ctx.ctx
         /\ held[i].ctx \notin world.ctxAlive
         /\ world.share[held[i].ctx] = world.share[ret.ctx.ctx]

\* C8 as claimed: on any Context constructed and not yet destroyed,
\* MakeContextCurrent does not panic, and neither does Destroy with the
\* Context current on the calling thread.
C8_ActivateDestroyNeverRaise ==
    /\ (ret.op = "MakeContextCurrent" /\ ret.pre.alive) => ret.panic = NilErr
    /\ (ret.op = "Destroy" /\ ret.pre.alive /\ ret.pre.mine) => ret.panic = NilErr

\* C8, amended: on any Context constructed, not yet destroyed and not current
\* on another thread, MakeContextCurrent does not panic and makes it current;
\* Destroy with the Context current on the calling thread does not panic.
C8_ActivateDestroyUnlessElsewhere ==
    /\ (ret.op = "MakeContextCurrent" /\ ret.pre.alive /\ ~ret.pre.elsewhere)
         => ret.panic = NilErr /\ world.current[ret.t] = ret.ctx.ctx
    /\ (ret.op = "Destroy" /\ ret.pre.alive /\ ret.pre.mine) => ret.panic = NilErr

\* C8, its case: a Context current on the calling thread was destroyed.
C8_Witness ==
    /\ ret.op = "Destroy" /\ ret.pre.alive /\ ret.pre.mine
    /\ ret.panic = NilErr
    /\ world.current[ret.t] = ret.ctx.ctx

\* C9: the attribute list given to eglCreateContext gives the debug attribute
\* the value true exactly when Debug is set in flags.
C9_DebugAttribute ==
    (ret.op \in Constructions /\ world.attr # <<>>)
    => (AttrValue(world.attr, "EGL_CONTEXT_OPENGL_DEBUG", 0) = 1
          <=> HasBit(ret.flags, Debug))

\* C9, its case: NewContext(4, 6, Core|Debug).
C9_Witness ==
    /\ ret.op = "NewContext" /\ ret.major = 4 /\ ret.minor = 6
    /\ ret.flags = Core + Debug
    /\ AttrValue(world.attr, "EGL_CONTEXT_OPENGL_DEBUG", 0) = 1

\* The error for "no config matched" of the running variant.
NoConfigError == IF build = "shared" THEN Error(NoConfigCode) ELSE ErrNoConfig

\* C10: when eglChooseConfig succeeds and reports no config, the construction
\* fails with the NoConfig error; when eglChooseConfig itself fails, it fails
\* with an error of another value and another text; neither calls
\* eglCreateContext.
C10_NoConfigIsDistinct ==
    (ret.op \in Constructions /\ LogHas("eglChooseConfig"))
    => /\ (ret.e.choose = EGL_SUCCESS /\ ret.e.nconf = 0)
            => ret.err = NoConfigError /\ ~LogHas("eglCreateContext")
       /\ ret.e.choose # EGL_SUCCESS
            => /\ Failure(ret.err)
               /\ ret.err # NoConfigError
               /\ Message(ret.err) # Message(NoConfigError)
               /\ ~LogHas("eglCreateContext")

\* C10, its case: the query succeeded and matched nothing.
C10_Witness ==
    /\ ret.op = "NewContext" /\ LogHas("eglChooseConfig")
    /\ ret.e.choose = EGL_SUCCESS /\ ret.e.nconf = 0
    /\ ret.err = NoConfigError

\* The Contexts held whose rendering context is c.
HeldAs(c) == {j \in DOMAIN held : held[j].ctx = c}

\* C11: a thread has one current context at most. After a MakeContextCurrent
\* that returns, the Context is the current one of the calling thread and the
\* one that was current there before is not; after Release the calling thread
\* has no current context, and the context that was current, if it was valid,
\* is still valid and eglMakeCurrent accepts it on every other thread.
C11_OneCurrentPerThread ==
    /\ \A t \in Threads :
         Cardinality({c \in world.ctxAlive : world.current[t] = c}) <= 1
    /\ (ret.op = "MakeContextCurrent" /\ ret.panic = NilErr)
         => /\ world.current[ret.t] = ret.ctx.ctx
            /\ ret.was # ret.ctx.ctx => world.current[ret.t] # ret.was
    /\ ret.op = "Release"
         => /\ ret.panic = NilErr
            /\ world.current[ret.t] = EGL_NO_CONTEXT
            /\ \A j \in HeldAs(ret.was) :
                 ret.pre.alive =>
                   /\ held[j].ctx \in world.ctxAlive
                   /\ \A u \in Threads \ {ret.t} :
                        MakeCurrentCode(world, u, held[j].dpy, held[j].ctx)
                          = EGL_SUCCESS

\* C11, its case: a thread released a valid context it had made current.
C11_Witness ==
    /\ ret.op = "Release" /\ ret.was # EGL_NO_CONTEXT
    /\ ret.pre.alive
    /\ HeldAs(ret.was) # {}
    /\ world.current[ret.t] = EGL_NO_CONTEXT

\* NewContext(3, 3, 0) on thread 1 of a process that has not used EGL yet, in
\* environment e.
FirstConstruction(e) ==
    CASE build = "gbm" -> newContext_gbm(World0, 1, 3, 3, 0, e)
      [] build = "platform" -> newContext_platform(World0, 1, 3, 3, 0, e)
      [] build = "shared" -> newContext_shared(World0, 1, 3, 3, 0, EGL_NO_CONTEXT, e)

\* The last native call of a log that can fail a construction.
RECURSIVE LastStageCall(_)
LastStageCall(log) ==
    IF log = <<>> THEN "none"
    ELSE IF log[Len(log)] \in {"eglGetError", "Close", "gbm_device_destroy"}
      THEN LastStageCall(SubSeq(log, 1, Len(log) - 1))
    ELSE log[Len(log)]

\* The stage at which a failed construction stopped, from its native calls.
Stage(log, e) ==
    CASE LastStageCall(log) = "eglChooseConfig" ->
           IF e.choose = EGL_SUCCESS THEN "zero configs" ELSE "config query"
      [] LastStageCall(log) = "eglBindAPI" -> "API bind"
      [] LastStageCall(log) = "eglCreateContext" -> "context creation"
      [] OTHER -> "display resolution"

\* The three classes of construction failures.
Class(stage) ==
    CASE stage = "display resolution" -> "no hardware path available"
      [] stage = "zero configs" -> "matched zero configs"
      [] OTHER -> "native library rejected parameters"

\* C12: the error of a failed construction identifies the stage that failed:
\* no construction that fails at another stage, whatever code the backend
\* reports there, returns the same error value; so the three classes of
\* failures (no hardware path, zero configs, parameters rejected) never share
\* an error value.
C12_ErrorIdentifiesStage ==
    (ret.op \in Constructions /\ Failure(ret.err))
    => \A e \in Env(build) :
         FirstConstruction(e).err = ret.err
           => Stage(FirstConstruction(e).w.log, e) = Stage(world.log, ret.e)

\* The codes of EGL's error table.
Table == EGL_NOT_INITIALIZED..EGL_CONTEXT_LOST
\* Error(code).Error() in the running variant.
TextOf(code) ==
    IF build = "shared" THEN Error_Error_shared(code) ELSE Error_Error(code)
UnknownPrefix == IF build = "shared" THEN "unknown EGL error: " ELSE "unknown error: "
\* The codes the running variant defines itself.
Sentinels == IF build = "shared" THEN {NoConfigCode} ELSE {}

\* C13: Error() answers for every code; a code of EGL's table gets a text of
\* its own, which is not an unknown-code text; any other code gets the
\* unknown-code text, which ends in that code; and the value for "no config
\* matched" (Error(-1) in glhl.go, ErrNoConfig elsewhere) has a text that no
\* native code and no unknown code has.
C13_ErrorMapperTotal ==
    ret.op = "Error"
    => LET c == ret.err.code
       IN /\ ret.text # <<>>
          /\ \A d \in Codes \ {c} : TextOf(d) # ret.text
          /\ c \in Table => ret.text[1] # UnknownPrefix
          /\ c \notin Table \cup Sentinels
               => ret.text = <<UnknownPrefix, ToString(c)>>
          /\ c \notin Sentinels => ret.text # Message(NoConfigError)
          /\ c \in Sentinels
               => ret.text = Message(NoConfigError) /\ ret.text[1] # UnknownPrefix

\* C13, its case: glhl.go's text for the "no config matched" code.
C13_Witness ==
    /\ ret.op = "Error" /\ build = "shared" /\ ret.err.code = NoConfigCode
    /\ ret.text = <<"EGL error: ", "no matching config">>

\* The native calls of the device path.
DeviceCalls == {"eglQueryString", "os.OpenFile", "gbm_create_device",
                "eglGetPlatformDisplay"}

\* C14: a Context that newContext returns has its resources from one display
\* strategy only. If initGeneric succeeded, no call of the device path was
\* made, the display is the default one and the Context has no device and no
\* device file; if the device path succeeded, the display is the platform
\* display of the Context's own device, which is allocated on the Context's
\* own open file, and not the display initGeneric had obtained.
C14_OneStrategyContributes ==
    (ret.op = "NewContext" /\ ret.err = NilErr)
    => IF ~GenericFailed(ret.e)
         THEN /\ \A k \in DOMAIN world.log : world.log[k] \notin DeviceCalls
              /\ build # "shared" => ret.gerr = NilErr
              /\ ret.perr = NotRun
              /\ ret.ctx.dpy = DefaultDisplay
              /\ ret.ctx.gbm = Nil /\ ret.ctx.gbmf = Nil
         ELSE /\ build = "gbm" /\ ret.perr = NilErr
              /\ ret.ctx.gbm # Nil /\ ret.ctx.gbm \in world.gbms
              /\ ret.ctx.gbmf # Nil /\ ret.ctx.gbmf \in world.fds
              /\ ret.ctx.dpy = PlatformDisplay(ret.ctx.gbm)
              /\ ret.ctx.dpy # DefaultDisplay
              /\ ret.ctx.dpy \in world.dpyInit

\* C14, its case: the default display was obtained and did not initialize, and
\* the Context returned is on the platform display of its device.
C14_Witness ==
    /\ ret.op = "NewContext" /\ ret.err = NilErr
    /\ ret.e.display /\ ret.e.init # EGL_SUCCESS
    /\ ret.ctx.dpy = PlatformDisplay(ret.ctx.gbm) /\ ret.ctx.gbm \in world.gbms

\* The stage of a native call of a construction: 1 display resolution,
\* 2 config selection, 3 API bind, 4 context creation; 0 for the calls that
\* read an error or release.
Rank(call) ==
    CASE call \in {"eglGetDisplay", "eglInitialize"} \cup DeviceCalls -> 1
      [] call = "eglChooseConfig" -> 2
      [] call = "eglBindAPI" -> 3
      [] call = "eglCreateContext" -> 4
      [] OTHER -> 0
\* The stage that fails in environment e, 5 if none does.
FailingStage(e) ==
    IF GenericFailed(e) /\ (build = "shared" \/ PlatformFailed(e)) THEN 1
    ELSE IF e.choose # EGL_SUCCESS \/ e.nconf = 0 THEN 2
    ELSE IF e.bind # EGL_SUCCESS THEN 3
    ELSE 4

\* C15: the native calls of a construction come in the order display
\* resolution, config selection, API bind, context creation, each of the last
\* three once at most: eglBindAPI is called before eglCreateContext, no call of
\* a later stage is made once a stage has failed, and a failed eglBindAPI is
\* returned as an error, no context having been created.
C15_StageOrder ==
    ret.op \in Constructions
    => LET log == world.log
       IN /\ \A j, k \in DOMAIN log :
               (j < k /\ Rank(log[j]) > 0 /\ Rank(log[k]) > 0)
                 => /\ Rank(log[j]) <= Rank(log[k])
                    /\ Rank(log[j]) > 1 => Rank(log[j]) < Rank(log[k])
          /\ \A k \in DOMAIN log :
               log[k] = "eglCreateContext"
                 => \E j \in 1..(k - 1) : log[j] = "eglBindAPI"
          /\ \A k \in DOMAIN log : Rank(log[k]) <= FailingStage(ret.e)
          /\ FailingStage(ret.e) = 3
               => /\ Failure(ret.err) /\ ret.err.code = ret.e.bind
                  /\ ret.ctx = ZeroContext
                  /\ ~LogHas("eglCreateContext")
                  /\ ret.work.ctx = EGL_NO_CONTEXT

\* C15, its case: eglBindAPI failed in a construction.
C15_Witness ==
    /\ ret.op = "NewContext" /\ ret.e.bind # EGL_SUCCESS
    /\ LogHas("eglBindAPI") /\ ~LogHas("eglCreateContext")
    /\ Failure(ret.err)

\* The devices made so far: a device is named by the descriptor it was made on.
DevicesMade == 1..(world.nextFd - 1)

\* C16: a device is released only once the display it backs has been torn
\* down: while the platform display of a device is initialized, the device is
\* allocated and its descriptor is open.
C16_DeviceOutlivesDisplay ==
    \A g \in DevicesMade :
        PlatformDisplay(g) \in world.dpyInit => g \in world.gbms /\ g \in world.fds

\* C17: every error code the library reports is the one the failing native
\* call set: each eglGetError of a library call reads the status that the EGL
\* call made just before it left, for it runs on the thread of that call with
\* no other EGL call on that thread in between.
C17_ErrorIsOfFailingCall == ~world.misread

\* C18: however often Destroy is called on a Context and its copies, the
\* device is destroyed once at most and its descriptor closed once at most: a
\* Destroy after the first fails in eglDestroyContext and panics, with no call
\* after the one that reads the error.
C18_DeviceReleasedOnce ==
    /\ \A g \in DevicesMade :
         Count(world.destroys, g) <= 1 /\ Count(world.closes, g) <= 1
    /\ (ret.op = "Destroy" /\ ~ret.pre.alive)
         => /\ ret.panic = Error(EGL_BAD_CONTEXT)
            /\ world.log = <<"eglDestroyContext", "eglGetError">>

\* C18, its case: a device-backed Context was destroyed a second time.
C18_Witness ==
    /\ ret.op = "Destroy" /\ ~ret.pre.alive /\ DeviceBacked(ret.ctx)
    /\ ret.panic # NilErr
    /\ Count(world.destroys, ret.ctx.gbm) = 1
    /\ Count(world.closes, ret.ctx.gbmf) = 1

\* C19 as claimed: after a Destroy of a device-backed Context that panicked
\* because eglDestroyContext failed, the device of the Context is allocated and
\* its descriptor is open.
C19_FailedDestroyDeviceAllocated ==
    (ret.op = "Destroy" /\ DeviceBacked(ret.ctx) /\ ret.panic # NilErr)
    => ret.ctx.gbm \in world.gbms /\ ret.ctx.gbmf \in world.fds

\* C19, amended: when eglDestroyContext fails in Destroy, Destroy panics at once
\* and what the Context owns is as it was: the call destroys no device and
\* closes no descriptor, so that a device that was allocated and a descriptor
\* that was open still are.
C19_FailedDestroyKeepsDevice ==
    [][(ret'.op = "Destroy"
          /\ eglDestroyContext(world, ret'.t, ret'.ctx.dpy, ret'.ctx.ctx).ok = FALSE)
       => /\ ret'.panic # NilErr
          /\ world'.gbms = world.gbms /\ world'.fds = world.fds
          /\ world'.destroys = world.destroys /\ world'.closes = world.closes
          /\ ~\E k \in DOMAIN world'.log :
                 world'.log[k] \in {"gbm_device_destroy", "Close"}]_vars

\* C19, its case: Destroy panicked on a device-backed Context and made no call
\* after the one that reads the error.
C19_Witness ==
    /\ ret.op = "Destroy" /\ DeviceBacked(ret.ctx) /\ ret.panic # NilErr
    /\ world.log = <<"eglDestroyContext", "eglGetError">>

\* C20: the Context that NewContext or NewSharedContext returns with an error
\* is the zero value, with a null display, a null rendering context and no
\* device, whatever the working Context held when the construction failed.
C20_FailureReturnsZero ==
    (ret.op \in Constructions /\ ret.err # NilErr)
    => /\ ret.ctx = ZeroContext
       /\ ret.ctx.dpy = EGL_NO_DISPLAY /\ ret.ctx.ctx = EGL_NO_CONTEXT
       /\ ret.ctx.gbm = Nil /\ ret.ctx.gbmf = Nil

\* C20, its case: a construction failed with a display, a device and a
\* descriptor in its working Context.
C20_Witness ==
    /\ ret.op = "NewContext" /\ ret.err # NilErr
    /\ ret.work.dpy # EGL_NO_DISPLAY /\ ret.work.gbm # Nil /\ ret.work.gbmf # Nil
    /\ ret.ctx = ZeroContext

====
